---- MODULE Spec2Model ----
(***************************************************************************)
(* CourseFilter (src/src/js/components/courseFilter.js): the filter state, *)
(* the loaded and the filtered course lists, the search box with its       *)
(* debounced input listener, and the coursesFiltered notification.         *)
(*                                                                         *)
(* Strings are sequences of one-character strings, so that toLowerCase,    *)
(* trim, split and includes are computed character by character.  Course   *)
(* cards and filter buttons are DOM elements: an element is named by its   *)
(* position in the page (Catalog, Buttons), and the arrays the component   *)
(* keeps (courses, filteredCourses) hold element references.               *)
(***************************************************************************)
EXTENDS Integers, Sequences, FiniteSets, TLC

VARIABLES
  courses,          \* this.courses: the loaded course cards, in document order
  filters,          \* this.filters: dimension name -> selected value
  filteredCourses,  \* this.filteredCourses
  inputValue,       \* .course-search-input's value
  timers,           \* pending setTimeout timers of the debounced listener
  timeout,          \* debounce's closure variable: id of the timer it set last, 0 when that timer is gone
  dispatched,       \* coursesFiltered events dispatched by the last operation
  lastOp,           \* history: the operation that ran last, with the dimensions it named
  lastTerm,         \* history: the search term most recently entered (raw), empty after a clear
  sinceInput,       \* history: ms since the last input event, saturating at wait
  burst,            \* history: input events of the current burst, and runs of handleSearch by the
                    \*          debounced listener since the last input event (both counted up to 2)
  clearedPending,   \* history: clearAllFilters has run since the last input event, while the
                    \*          timer that event set was pending
  active,           \* the filter buttons that carry the class options.activeClass
  pressed,          \* the filter buttons whose aria-pressed attribute is "true"
  focused,          \* the filter button handleFilterKeydown gave focus last, 0 when none
  lastKey,          \* history: target and key of the last keydown event on a filter button
  present,          \* the optional elements the document has
  style,            \* card -> its style.display, style.opacity, and whether it has options.hiddenClass
  hideTimers,       \* the cards of the pending timers of hideCourse, in the order they were set
  lastRendered,     \* history: this.filteredCourses as renderCourses last read it
  resultsCount,     \* .filter-results-count's text
  emptyState,       \* .courses-empty-state's style.display and aria-hidden
  searchResultsCount, \* .search-results-count's text
  announced         \* the texts the last operation gave #course-filter-announcements

vars == <<courses, filters, filteredCourses, inputValue, timers, timeout,
          dispatched, lastOp, lastTerm, sinceInput, burst, clearedPending,
          active, pressed, focused, lastKey, present, style, hideTimers, lastRendered,
          resultsCount, emptyState, searchResultsCount, announced>>

----------------------------------------------------------------------------
(* Bounds *)

MaxCourses == 4     \* course cards on the page
MaxTimers == 2      \* timers pending at once
MaxHideTimers == 2  \* hide timers pending when an operation renders
MaxCards == 2       \* course cards on the page where the hide timers fire in any order
TickMs == 150       \* granularity of the clock, in ms

----------------------------------------------------------------------------
(* Strings *)

UpperCase == <<"A", "B", "C", "D", "E", "F", "G", "H", "I", "J", "K", "L", "M",
               "N", "O", "P", "Q", "R", "S", "T", "U", "V", "W", "X", "Y", "Z">>
LowerCase == <<"a", "b", "c", "d", "e", "f", "g", "h", "i", "j", "k", "l", "m",
               "n", "o", "p", "q", "r", "s", "t", "u", "v", "w", "x", "y", "z">>
WhiteSpace == {" ", "\t", "\n"}

ALL == <<"a", "l", "l">>
BEGINNER == <<"b", "e", "g", "i", "n", "n", "e", "r">>
ADVANCED == <<"a", "d", "v", "a", "n", "c", "e", "d">>
ENGLISH == <<"e", "n", "g", "l", "i", "s", "h">>
SPANISH == <<"s", "p", "a", "n", "i", "s", "h">>
ONLINE == <<"o", "n", "l", "i", "n", "e">>
BUSINESS == <<"b", "u", "s", "i", "n", "e", "s", "s">>
BEG_ADV == <<"b", "e", "g", "i", "n", "n", "e", "r", ",", "a", "d", "v", "a", "n", "c", "e", "d">>
SPA_ENG == <<"s", "p", "a", "n", "i", "s", "h", ",", " ", "e", "n", "g", "l", "i", "s", "h">>
TAGS_ENG_BUS == <<"e", "n", "g", "l", "i", "s", "h", ",", "b", "u", "s", "i", "n", "e", "s", "s">>
TAGS_TRAVEL == <<"T", "r", "a", "v", "e", "l", ",", "S", "P", "A", "N", "I", "S", "H">>
TITLE_BUSINESS == <<"B", "u", "s", "i", "n", "e", "s", "s", " ", "E", "n", "g", "l", "i", "s", "h">>
TITLE_A1 == <<"E", "n", "g", "l", "i", "s", "h", " ", "A", "1">>
TITLE_B2 == <<"S", "p", "a", "n", "i", "s", "h", " ", "B", "2">>
TITLE_TRAVEL == <<"T", "r", "a", "v", "e", "l">>
DESC_WORK == <<"F", "o", "r", " ", "w", "o", "r", "k">>
DESC_BUS == <<"B", "u", "s", "t", "o", "u", "r">>
BUS == <<"b", "u", "s">>
BUS_RAW == <<" ", "B", "U", "S", " ">>
SPAN == <<"s", "p", "a", "n">>
BLANK == <<" ">>
EMPTY == <<>>

\* String.prototype.toLowerCase
toLowerCase(s) ==
  [i \in 1..Len(s) |->
     IF \E k \in 1..Len(UpperCase) : UpperCase[k] = s[i]
     THEN LowerCase[CHOOSE k \in 1..Len(UpperCase) : UpperCase[k] = s[i]]
     ELSE s[i]]

\* String.prototype.trim
trim(s) ==
  LET keep == {i \in 1..Len(s) : s[i] \notin WhiteSpace}
  IN  IF keep = {} THEN <<>>
      ELSE SubSeq(s, CHOOSE i \in keep : \A j \in keep : i <= j,
                     CHOOSE i \in keep : \A j \in keep : i >= j)

\* String.prototype.includes
includes(s, t) ==
  \E i \in 0..(Len(s) - Len(t)) : SubSeq(s, i + 1, i + Len(t)) = t

\* String.prototype.split(','): the pieces between the commas, in order
RECURSIVE split(_)
split(s) ==
  LET commas == {i \in 1..Len(s) : s[i] = ","}
  IN  IF commas = {} THEN <<s>>
      ELSE LET c == CHOOSE i \in commas : \A j \in commas : i <= j
           IN  <<SubSeq(s, 1, c - 1)>> \o split(SubSeq(s, c + 1, Len(s)))

----------------------------------------------------------------------------
(* The page: course cards and filter buttons *)

\* A card: its data-* attributes (those present) and the text of its
\* .course-title and .course-description children (those present).
Catalog == <<
  [data |-> [level |-> BEGINNER, language |-> ENGLISH, format |-> ONLINE, tags |-> TAGS_ENG_BUS],
   text |-> [title |-> TITLE_BUSINESS, description |-> DESC_WORK]],
  [data |-> [level |-> BEGINNER, language |-> SPA_ENG],
   text |-> [title |-> TITLE_A1]],
  [data |-> [level |-> ADVANCED, language |-> SPANISH, tags |-> TAGS_TRAVEL],
   text |-> [title |-> TITLE_B2]],
  [data |-> [level |-> BEG_ADV, format |-> ONLINE],
   text |-> [description |-> DESC_BUS]],
  [data |-> <<>>,
   text |-> [title |-> TITLE_TRAVEL]] >>

\* A filter button (an element matching options.filterSelector), in document
\* order: its data-filter and data-value attributes ("" and <<>> when the
\* attribute is absent), the .filter-group element it lies in (0 when it
\* lies in none) and whether the markup gives it the active class.
Buttons == <<
  [filter |-> "level", value |-> ALL, group |-> 1, active |-> TRUE],
  [filter |-> "level", value |-> BEGINNER, group |-> 1, active |-> FALSE],
  [filter |-> "language", value |-> ENGLISH, group |-> 2, active |-> FALSE],
  [filter |-> "topic", value |-> BUSINESS, group |-> 0, active |-> FALSE],
  [filter |-> "level", value |-> EMPTY, group |-> 1, active |-> FALSE],
  [filter |-> "", value |-> BEGINNER, group |-> 0, active |-> FALSE],
  [filter |-> "language", value |-> ALL, group |-> 2, active |-> TRUE] >>

\* e.key of the keydown events
Keys == {"ArrowRight", "ArrowDown", "ArrowLeft", "ArrowUp", "Home", "End", "Enter"}

\* Arguments of the programmatic calls
UpdateArgs == { <<"level", BEG_ADV>>, <<"topic", BUSINESS>> }
SetFiltersArgs == { <<>>, [level |-> ALL, language |-> ENGLISH], [topic |-> BUSINESS],
                    [level |-> BEG_ADV] }
SearchTerms == { EMPTY, BLANK, BUS_RAW, SPAN }
InputValues == { EMPTY, BUS_RAW }

\* The document's .course-card elements, in document order: the first n
\* cards of the catalog, for any n up to MaxCourses.
Pages ==
  { [i \in 1..n |-> i] : n \in { m \in 0..MaxCourses : m <= Len(Catalog) } }

\* The document with the first two cards of the catalog only
SmallPage == <<1, 2>>

----------------------------------------------------------------------------
(* The component *)

\* The five dimensions the constructor sets up
Dimensions == {"level", "language", "format", "schedule", "price"}

\* debounce(..., 300) in bindEvents
wait == 300

\* course.dataset.x / course.getAttribute('data-x'): is the attribute there
hasData(course, name) == name \in DOMAIN Catalog[course].data
data(course, name) == Catalog[course].data[name]

\* course.querySelector('.course-title')?.textContent ... || ''
textContent(course, child) ==
  IF child \in DOMAIN Catalog[course].text THEN Catalog[course].text[child] ELSE <<>>

\* Mutant of listIncludes: the pieces are compared untrimmed
listIncludes_noTrim(courseValue, filterValue) ==
  LET parts == split(courseValue)
  IN  \E i \in 1..Len(parts) : parts[i] = filterValue

\* courseValue.split(',').map(v => v.trim()).includes(filterValue)
listIncludes(courseValue, filterValue) ==
  LET parts == split(courseValue)
  IN  \E i \in 1..Len(parts) : trim(parts[i]) = filterValue

\* Mutant of filterMatches: "all" is compared like any other value
filterMatches_noAll(course, filterType, filterValue) ==
  IF ~hasData(course, filterType) THEN FALSE
  ELSE LET courseValue == data(course, filterType)
       IN  IF includes(courseValue, <<",">>)
           THEN listIncludes(courseValue, filterValue)
           ELSE courseValue = filterValue

\* The callback of every() in applyFilters: one entry of this.filters
\* against one course.  A missing attribute reads as null, which is equal to
\* no filter value.
filterMatches(course, filterType, filterValue) ==
  IF filterValue = ALL THEN TRUE
  ELSE IF ~hasData(course, filterType) THEN FALSE
  ELSE LET courseValue == data(course, filterType)
       IN  IF includes(courseValue, <<",">>)
           THEN listIncludes(courseValue, filterValue)
           ELSE courseValue = filterValue

\* applyFilters: the courses of cs that pass every entry of fs, in order
applyFilters(cs, fs) ==
  LET passes(course) == \A k \in DOMAIN fs : filterMatches(course, k, fs[k])
  IN  SelectSeq(cs, passes)

\* Mutant of searchMatches: the course's texts are not lower-cased
searchMatches_caseSensitive(course, term) ==
  LET title == textContent(course, "title")
      description == textContent(course, "description")
      tags == IF hasData(course, "tags") THEN data(course, "tags") ELSE <<>>
  IN  includes(title, term) \/ includes(description, term) \/ includes(tags, term)

\* The callback of filter() in handleSearch, for a term already normalised
searchMatches(course, term) ==
  LET title == toLowerCase(textContent(course, "title"))
      description == toLowerCase(textContent(course, "description"))
      tags == IF hasData(course, "tags") THEN toLowerCase(data(course, "tags")) ELSE <<>>
  IN  includes(title, term) \/ includes(description, term) \/ includes(tags, term)

\* Mutant of searchCourses: the term is not trimmed
searchCourses_noTrim(cs, fs, fc, searchTerm) ==
  LET term == toLowerCase(searchTerm)
      hit(course) == searchMatches(course, term)
  IN  IF term = <<>> THEN applyFilters(cs, fs) ELSE SelectSeq(fc, hit)

\* The list handleSearch leaves in this.filteredCourses
searchCourses(cs, fs, fc, searchTerm) ==
  LET term == trim(toLowerCase(searchTerm))
      hit(course) == searchMatches(course, term)
  IN  IF term = <<>> THEN applyFilters(cs, fs) ELSE SelectSeq(fc, hit)

\* Mutant of assign: the entries not named are set back to "all"
assign_resetOthers(fs, newFilters) ==
  [k \in DOMAIN fs \cup DOMAIN newFilters |->
     IF k \in DOMAIN newFilters THEN newFilters[k] ELSE ALL]

\* this.filters[type] = value; Object.assign(this.filters, newFilters)
assign(fs, newFilters) ==
  [k \in DOMAIN fs \cup DOMAIN newFilters |->
     IF k \in DOMAIN newFilters THEN newFilters[k] ELSE fs[k]]

\* renderCourses: the coursesFiltered event it dispatches
renderCourses(fc, fs) ==
  << [courses |-> fc, filters |-> fs, count |-> Len(fc)] >>

\* clearTimeout(id): a timer that is no longer pending is left alone
clearTimeout(ts, id) == {t \in ts : t.id # id}

\* setTimeout's handle: an id no pending timer has
freshId(ts) == CHOOSE i \in 1..(Cardinality(ts) + 1) :
                 (\A t \in ts : t.id # i) /\
                 (\A j \in 1..(Cardinality(ts) + 1) : (\A t \in ts : t.id # j) => i <= j)

\* filterGroup.querySelectorAll(options.filterSelector): the filter buttons
\* of group g, in document order
groupButtons(g) ==
  LET inGroup(b) == Buttons[b].group = g
  IN  SelectSeq([b \in 1..Len(Buttons) |-> b], inGroup)

\* buttons.indexOf(button), counted from 0
indexOf(buttons, button) ==
  (CHOOSE i \in 1..Len(buttons) : buttons[i] = button) - 1

\* updateActiveButtons, for the class and for aria-pressed alike: of the
\* group of activeButton only activeButton keeps the mark; a button outside
\* every group changes nothing.
updateActiveButtons(marked, activeButton) ==
  LET filterGroup == Buttons[activeButton].group
  IN  IF filterGroup = 0 THEN marked
      ELSE (marked \ {b \in 1..Len(Buttons) : Buttons[b].group = filterGroup})
             \cup {activeButton}

\* document.querySelector('[data-filter=type][data-value=value]'): the first
\* such element of the document, 0 when there is none
queryButton(filterType, filterValue) ==
  LET found == {b \in 1..Len(Buttons) :
                  Buttons[b].filter = filterType /\ Buttons[b].value = filterValue}
  IN  IF found = {} THEN 0 ELSE CHOOSE b \in found : \A c \in found : b <= c

\* The loop over Object.entries(newFilters) that ends setFilters (the
\* entries in the order of their keys)
RECURSIVE updateButtonStates(_, _)
updateButtonStates(marked, newFilters) ==
  IF DOMAIN newFilters = {} THEN marked
  ELSE LET filterType == CHOOSE k \in DOMAIN newFilters : TRUE
           button == queryButton(filterType, newFilters[filterType])
           rest == [k \in DOMAIN newFilters \ {filterType} |-> newFilters[k]]
       IN  updateButtonStates(IF button = 0 THEN marked
                              ELSE updateActiveButtons(marked, button), rest)

\* clearAllFilters on the buttons: every filter button loses the mark, every
\* element with data-value="all" gets it
resetButtons(marked) ==
  (marked \ (1..Len(Buttons))) \cup {b \in 1..Len(Buttons) : Buttons[b].value = ALL}

\* Mutant of targetIndex: ArrowLeft and ArrowUp do not wrap
targetIndex_noWrap(key, currentIndex, length) ==
  CASE key \in {"ArrowRight", "ArrowDown"} -> (currentIndex + 1) % length
    [] key \in {"ArrowLeft", "ArrowUp"} -> IF currentIndex = 0 THEN 0 ELSE currentIndex - 1
    [] key = "Home" -> 0
    [] key = "End" -> length - 1
    [] OTHER -> -1

\* The index handleFilterKeydown computes for the key, -1 for a key it
\* does not handle
targetIndex(key, currentIndex, length) ==
  CASE key \in {"ArrowRight", "ArrowDown"} -> (currentIndex + 1) % length
    [] key \in {"ArrowLeft", "ArrowUp"} -> (currentIndex - 1 + length) % length
    [] key = "Home" -> 0
    [] key = "End" -> length - 1
    [] OTHER -> -1

\* this.filteredCourses.includes(course)
arrayIncludes(array, course) == \E i \in 1..Len(array) : array[i] = course

\* The state of an optional element that the page lacks or that nothing has
\* written to yet
NoText == [message |-> "", button |-> 0, count |-> 0, total |-> 0]
NoDisplay == [display |-> "", ariaHidden |-> ""]

\* showCourse: the card's style and class afterwards
showCourse(card) == [display |-> "block", hidden |-> FALSE, opacity |-> "1"]

\* hideCourse, before its timer: the card fades
hideCourse(card) == [card EXCEPT !.opacity = "0"]

\* Mutant of hideCallback: the card is hidden whatever its opacity
hideCallback_noCheck(card) ==
  [card EXCEPT !.display = "none", !.hidden = TRUE]

\* The callback of hideCourse's timer
hideCallback(card) ==
  IF card.opacity = "0" THEN [card EXCEPT !.display = "none", !.hidden = TRUE]
  ELSE card

\* The loop of renderCourses over this.courses: each course is shown or
\* starts to hide, and every hideCourse sets a timer
showOrHide ==
  LET leaving(course) == ~arrayIncludes(filteredCourses', course)
  IN  /\ style' = [c \in DOMAIN style |->
                     IF ~arrayIncludes(courses', c) THEN style[c]
                     ELSE IF leaving(c) THEN hideCourse(style[c])
                     ELSE showCourse(style[c])]
      /\ hideTimers' = hideTimers \o SelectSeq(courses', leaving)

\* Mutant of updateResultsCount: the total is written in both places
updateResultsCount_totalTwice ==
  resultsCount' = IF "resultsCount" \in present
                    THEN [message |-> "Showing", button |-> 0,
                          count |-> Len(courses'), total |-> Len(courses')]
                    ELSE resultsCount

\* updateResultsCount: `Showing ${count} of ${total} courses`
updateResultsCount ==
  resultsCount' = IF "resultsCount" \in present
                    THEN [message |-> "Showing", button |-> 0,
                          count |-> Len(filteredCourses'), total |-> Len(courses')]
                    ELSE resultsCount

\* Mutant of toggleEmptyState: an absent element is written to
toggleEmptyState_noCheck ==
  emptyState' = IF Len(filteredCourses') = 0
                  THEN [display |-> "block", ariaHidden |-> "false"]
                  ELSE [display |-> "none", ariaHidden |-> "true"]

\* toggleEmptyState
toggleEmptyState ==
  emptyState' = IF "emptyState" \notin present THEN emptyState
                ELSE IF Len(filteredCourses') = 0
                  THEN [display |-> "block", ariaHidden |-> "false"]
                  ELSE [display |-> "none", ariaHidden |-> "true"]

\* renderCourses: the cards, the counter, the empty state and the event
render ==
  /\ showOrHide
  /\ lastRendered' = filteredCourses'
  /\ updateResultsCount
  /\ toggleEmptyState
  /\ dispatched' = renderCourses(filteredCourses', filters')

\* announceToScreenReader(message)
announceToScreenReader(message) ==
  announced' = IF "liveRegion" \in present THEN <<message>> ELSE <<>>

Op(name, dims) == [name |-> name, dims |-> dims]

\* What the operations that do not render leave alone
view == <<style, hideTimers, lastRendered, resultsCount, emptyState>>
controls == <<active, pressed, focused, lastKey>>
debounced == <<inputValue, timers, timeout, sinceInput, burst, clearedPending>>

\* new CourseFilter() on a page with the optional elements `elements`: the
\* constructor and init() (bindEvents, loadCourses, setupAccessibility, which
\* adds the live region, renderCourses, announceToScreenReader)
InitOn(elements) ==
  /\ courses \in Pages
  /\ filters = [level |-> ALL, language |-> ALL, format |-> ALL,
                schedule |-> ALL, price |-> ALL]
  /\ filteredCourses = courses
  /\ inputValue = EMPTY
  /\ timers = {}
  /\ timeout = 0
  /\ dispatched = renderCourses(filteredCourses, filters)
  /\ lastOp = Op("init", {})
  /\ lastTerm = EMPTY
  /\ sinceInput = wait
  /\ burst = [events |-> 0, runs |-> 0]
  /\ clearedPending = FALSE
  /\ active = {b \in 1..Len(Buttons) : Buttons[b].active}
  /\ pressed = active
  /\ focused = 0
  /\ lastKey = [target |-> 0, key |-> ""]
  /\ present = elements \cup {"liveRegion"}
  /\ style = [c \in {courses[i] : i \in 1..Len(courses)} |-> showCourse(<<>>)]
  /\ hideTimers = <<>>
  /\ lastRendered = filteredCourses
  /\ resultsCount = IF "resultsCount" \in present
                      THEN [message |-> "Showing", button |-> 0,
                            count |-> Len(filteredCourses), total |-> Len(courses)]
                      ELSE NoText
  /\ emptyState = IF "emptyState" \notin present THEN NoDisplay
                  ELSE IF Len(filteredCourses) = 0
                    THEN [display |-> "block", ariaHidden |-> "false"]
                    ELSE [display |-> "none", ariaHidden |-> "true"]
  /\ searchResultsCount = NoText
  /\ announced = << [message |-> "initialized", button |-> 0, count |-> 0, total |-> 0] >>

\* A page with the search box and the clear button, without counters and
\* empty-state element
Init == InitOn({"searchInput", "clearButton"})

\* A click on a filter button
handleFilterClick(button) ==
  LET filterType == Buttons[button].filter
      filterValue == Buttons[button].value
  IN  IF filterType = "" \/ filterValue = <<>>
      THEN /\ lastOp' = Op("handleFilterClick", {})
           /\ dispatched' = <<>>
           /\ UNCHANGED <<courses, filters, filteredCourses, lastTerm, debounced, controls,
                          view, present, searchResultsCount>>
           /\ announced' = <<>>
      ELSE /\ filters' = assign(filters, [k \in {filterType} |-> filterValue])
           /\ filteredCourses' = applyFilters(courses, filters')
           /\ UNCHANGED courses
           /\ active' = updateActiveButtons(active, button)
           /\ pressed' = updateActiveButtons(pressed, button)
           /\ render
           /\ announceToScreenReader([message |-> "applied", button |-> button,
                                      count |-> Len(filteredCourses'), total |-> 0])
           /\ lastOp' = Op("handleFilterClick", {filterType})
           /\ UNCHANGED <<lastTerm, debounced, focused, lastKey, present,
                          searchResultsCount>>

\* updateFilter(type, value), called on the instance
updateFilter(type, value) ==
  /\ filters' = assign(filters, [k \in {type} |-> value])
  /\ filteredCourses' = applyFilters(courses, filters')
  /\ dispatched' = <<>>
  /\ lastOp' = Op("updateFilter", {type})
  /\ UNCHANGED <<courses, lastTerm, debounced, controls, view, present,
                 searchResultsCount>>
  /\ announced' = <<>>

\* setFilters(newFilters)
setFilters(newFilters) ==
  /\ filters' = assign(filters, newFilters)
  /\ filteredCourses' = applyFilters(courses, filters')
  /\ UNCHANGED courses
  /\ render
  /\ active' = updateButtonStates(active, newFilters)
  /\ pressed' = updateButtonStates(pressed, newFilters)
  /\ lastOp' = Op("setFilters", DOMAIN newFilters)
  /\ UNCHANGED <<lastTerm, debounced, focused, lastKey, present,
                 searchResultsCount>>
  /\ announced' = <<>>

\* Mutant of search: the loaded list is narrowed together with the filtered one
search_narrowsLoaded(searchTerm) ==
  /\ filteredCourses' = searchCourses(courses, filters, filteredCourses, searchTerm)
  /\ courses' = filteredCourses'
  /\ UNCHANGED filters
  /\ render
  /\ searchResultsCount' =
       IF "searchResultsCount" \in present
         THEN [message |-> "found", button |-> 0, count |-> Len(filteredCourses'), total |-> 0]
         ELSE searchResultsCount
  /\ lastTerm' = searchTerm
  /\ UNCHANGED <<controls, present>>
  /\ announced' = <<>>

\* handleSearch(searchTerm): what it does to the component and the page
search(searchTerm) ==
  /\ filteredCourses' = searchCourses(courses, filters, filteredCourses, searchTerm)
  /\ UNCHANGED <<courses, filters>>
  /\ render
  /\ searchResultsCount' =
       IF "searchResultsCount" \in present
         THEN [message |-> "found", button |-> 0, count |-> Len(filteredCourses'), total |-> 0]
         ELSE searchResultsCount
  /\ lastTerm' = searchTerm
  /\ UNCHANGED <<controls, present>>
  /\ announced' = <<>>

\* handleSearch(searchTerm), called on the instance
handleSearch(searchTerm) ==
  /\ search(searchTerm)
  /\ lastOp' = Op("handleSearch", {})
  /\ UNCHANGED debounced

\* Mutant of clearAllFilters: the filtered list is rendered as it stands
clearAllFilters_keepsList ==
  /\ filters' = [k \in DOMAIN filters |-> ALL]
  /\ active' = resetButtons(active)
  /\ pressed' = resetButtons(pressed)
  /\ inputValue' = IF "searchInput" \in present THEN EMPTY ELSE inputValue
  /\ filteredCourses' = filteredCourses
  /\ UNCHANGED courses
  /\ render
  /\ announceToScreenReader([message |-> "cleared", button |-> 0, count |-> 0, total |-> 0])
  /\ lastOp' = Op("clearAllFilters", {})
  /\ lastTerm' = EMPTY
  /\ clearedPending' = (clearedPending \/ timers # {})
  /\ UNCHANGED <<timers, timeout, sinceInput, burst, focused, lastKey, present,
                 searchResultsCount>>

\* Mutant of clearAllFilters: the search box keeps its value
clearAllFilters_keepsInput ==
  /\ filters' = [k \in DOMAIN filters |-> ALL]
  /\ active' = resetButtons(active)
  /\ pressed' = resetButtons(pressed)
  /\ filteredCourses' = courses
  /\ UNCHANGED courses
  /\ render
  /\ announceToScreenReader([message |-> "cleared", button |-> 0, count |-> 0, total |-> 0])
  /\ lastOp' = Op("clearAllFilters", {})
  /\ lastTerm' = EMPTY
  /\ clearedPending' = (clearedPending \/ timers # {})
  /\ UNCHANGED <<inputValue, timers, timeout, sinceInput, burst, focused, lastKey, present,
                 searchResultsCount>>

\* clearAllFilters
clearAllFilters ==
  /\ filters' = [k \in DOMAIN filters |-> ALL]
  /\ active' = resetButtons(active)
  /\ pressed' = resetButtons(pressed)
  /\ inputValue' = IF "searchInput" \in present THEN EMPTY ELSE inputValue
  /\ filteredCourses' = courses
  /\ UNCHANGED courses
  /\ render
  /\ announceToScreenReader([message |-> "cleared", button |-> 0, count |-> 0, total |-> 0])
  /\ lastOp' = Op("clearAllFilters", {})
  /\ lastTerm' = EMPTY
  /\ clearedPending' = (clearedPending \/ timers # {})
  /\ UNCHANGED <<timers, timeout, sinceInput, burst, focused, lastKey, present,
                 searchResultsCount>>

\* A click on the clear button: bindEvents sets the listener if the page
\* has the button
clearButtonClick ==
  /\ "clearButton" \in present
  /\ clearAllFilters

\* Mutant of destroy: only the loaded list is emptied
destroy_keepsFiltered ==
  /\ courses' = <<>>
  /\ present' = present \ {"liveRegion"}
  /\ announced' = <<>>
  /\ dispatched' = <<>>
  /\ lastOp' = Op("destroy", {})
  /\ UNCHANGED <<filters, filteredCourses, lastTerm, debounced, controls, view,
                 searchResultsCount>>

\* destroy: the lists are emptied and the live region is removed
destroy ==
  /\ courses' = <<>>
  /\ filteredCourses' = <<>>
  /\ present' = present \ {"liveRegion"}
  /\ announced' = <<>>
  /\ dispatched' = <<>>
  /\ lastOp' = Op("destroy", {})
  /\ UNCHANGED <<filters, lastTerm, debounced, controls, view, searchResultsCount>>

\* Mutant of executedFunction: the timer set before is not cancelled
executedFunction_noClear(v) ==
  LET id == freshId(timers)
  IN  /\ "searchInput" \in present
      /\ Cardinality(timers) < MaxTimers
      /\ inputValue' = v
      /\ timers' = timers \cup {[id |-> id, remaining |-> wait]}
      /\ timeout' = id
      /\ sinceInput' = 0
      /\ burst' = [events |-> IF sinceInput < wait /\ burst.events > 0
                                THEN (IF burst.events < 2 THEN burst.events + 1 ELSE 2)
                                ELSE 1,
                     runs |-> 0]
      /\ clearedPending' = FALSE
      /\ dispatched' = <<>>
      /\ lastOp' = Op("input", {})
      /\ UNCHANGED <<courses, filters, filteredCourses, lastTerm, controls, view, present,
                     searchResultsCount>>
      /\ announced' = <<>>

\* An input event on the search box, the user having made its value v: the
\* function debounce returned cancels the timer it set last and sets a new
\* one.  bindEvents sets the listener if the page has the search box.
executedFunction(v) ==
  LET cleared == clearTimeout(timers, timeout)
      id == freshId(cleared)
  IN  /\ "searchInput" \in present
      /\ Cardinality(cleared) < MaxTimers
      /\ inputValue' = v
      /\ timers' = cleared \cup {[id |-> id, remaining |-> wait]}
      /\ timeout' = id
      /\ sinceInput' = 0
      /\ burst' = [events |-> IF sinceInput < wait /\ burst.events > 0
                                THEN (IF burst.events < 2 THEN burst.events + 1 ELSE 2)
                                ELSE 1,
                     runs |-> 0]
      /\ clearedPending' = FALSE
      /\ dispatched' = <<>>
      /\ lastOp' = Op("input", {})
      /\ UNCHANGED <<courses, filters, filteredCourses, lastTerm, controls, view, present,
                     searchResultsCount>>
      /\ announced' = <<>>

\* A timer that has run down fires: later() clears the timer the closure
\* names and calls handleSearch with the value the search box has now.
later(t) ==
  /\ t.remaining = 0
  /\ timers' = clearTimeout(timers \ {t}, timeout)
  /\ timeout' = 0
  /\ search(inputValue)
  /\ burst' = [burst EXCEPT !.runs = IF @ < 2 THEN @ + 1 ELSE 2]
  /\ lastOp' = Op("later", {})
  /\ UNCHANGED <<inputValue, sinceInput, clearedPending>>

\* TickMs of time pass while a timer is running down
Tick ==
  /\ \E t \in timers : t.remaining > 0
  /\ timers' = { [id |-> t.id,
                  remaining |-> IF t.remaining > TickMs THEN t.remaining - TickMs ELSE 0] :
                 t \in timers }
  /\ sinceInput' = IF sinceInput + TickMs < wait THEN sinceInput + TickMs ELSE wait
  /\ dispatched' = <<>>
  /\ lastOp' = Op("tick", {})
  /\ UNCHANGED <<courses, filters, filteredCourses, inputValue, timeout, lastTerm, burst,
                 clearedPending, controls, view, present, searchResultsCount>>
  /\ announced' = <<>>

\* A keydown event whose target is the filter button `button` (the button
\* that has focus when the key is pressed)
handleFilterKeydown(button, key) ==
  LET filterGroup == Buttons[button].group
      buttons == groupButtons(filterGroup)
      currentIndex == indexOf(buttons, button)
      index == targetIndex(key, currentIndex, Len(buttons))
  IN  /\ focused' = IF filterGroup = 0 \/ index = -1 THEN focused
                     ELSE buttons[index + 1]
      /\ lastKey' = [target |-> button, key |-> key]
      /\ dispatched' = <<>>
      /\ lastOp' = Op("handleFilterKeydown", {})
      /\ UNCHANGED <<courses, filters, filteredCourses, lastTerm, debounced, active, pressed,
                     view, present, searchResultsCount>>
      /\ announced' = <<>>

\* The hide timer set first among those pending fires.  The timers all
\* have the delay options.animationDuration, so they fire in the order they
\* were set; how long that takes is not kept.
hideTimerFires ==
  /\ hideTimers # <<>>
  /\ style' = [style EXCEPT ![Head(hideTimers)] = hideCallback(@)]
  /\ hideTimers' = Tail(hideTimers)
  /\ dispatched' = <<>>
  /\ lastOp' = Op("hideTimer", {})
  /\ UNCHANGED <<courses, filters, filteredCourses, lastTerm, debounced, controls,
                 lastRendered, resultsCount, emptyState, present, searchResultsCount>>
  /\ announced' = <<>>

\* All the pending hide timers fire, one after the other, with nothing in
\* between
hideTimersFire ==
  /\ hideTimers # <<>>
  /\ style' = [c \in DOMAIN style |->
                 IF arrayIncludes(hideTimers, c) THEN hideCallback(style[c]) ELSE style[c]]
  /\ hideTimers' = <<>>
  /\ dispatched' = <<>>
  /\ lastOp' = Op("hideTimer", {})
  /\ UNCHANGED <<courses, filters, filteredCourses, lastTerm, debounced, controls,
                 lastRendered, resultsCount, emptyState, present, searchResultsCount>>
  /\ announced' = <<>>

\* The events and calls from outside
Operations ==
  \/ \E b \in 1..Len(Buttons) : handleFilterClick(b)
  \/ \E a \in UpdateArgs : updateFilter(a[1], a[2])
  \/ \E f \in SetFiltersArgs : setFilters(f)
  \/ \E s \in SearchTerms : handleSearch(s)
  \/ clearAllFilters
  \/ clearButtonClick
  \/ \E v \in InputValues : executedFunction(v)
  \/ \E t \in timers : later(t)
  \/ Tick

\* The cards' transitions end before the next event or call: the callbacks
\* of the hide timers write the cards' style only, which nothing else reads.
Next ==
  \/ hideTimers = <<>> /\ Operations
  \/ hideTimersFire

Spec == Init /\ [][Next]_vars

\* The calls on the instance up to and after destroy, and the clicks
NextLifecycle ==
  \/ /\ hideTimers = <<>>
     /\ \/ \E b \in 1..Len(Buttons) : handleFilterClick(b)
        \/ \E a \in UpdateArgs : updateFilter(a[1], a[2])
        \/ \E f \in SetFiltersArgs : setFilters(f)
        \/ \E s \in SearchTerms : handleSearch(s)
        \/ clearAllFilters
        \/ destroy
  \/ hideTimersFire

SpecLifecycle == Init /\ [][NextLifecycle]_vars

\* The operations that render and the hide timers, in any order, while
\* fewer than MaxHideTimers timers are pending
NextRender ==
  \/ /\ Len(hideTimers) < MaxHideTimers
     /\ \/ \E b \in 1..Len(Buttons) : handleFilterClick(b)
        \/ \E f \in SetFiltersArgs : setFilters(f)
        \/ \E s \in SearchTerms : handleSearch(s)
        \/ clearAllFilters
  \/ hideTimerFires

\* A page of one card or more, up to MaxCards, with the counters and the
\* empty-state element
InitRender ==
  /\ InitOn({"resultsCount", "emptyState", "searchResultsCount"})
  /\ Len(courses) \in 1..MaxCards

SpecRender == InitRender /\ [][NextRender]_vars

\* The elements a page may have or lack; the live region is added by
\* init and removed by destroy
OptionalElements ==
  {"searchInput", "clearButton", "resultsCount", "searchResultsCount", "emptyState"}

\* Clicks, searches, clears, setFilters and destroy
NextOptional ==
  \/ /\ hideTimers = <<>>
     /\ \/ \E b \in 1..Len(Buttons) : handleFilterClick(b)
        \/ \E f \in SetFiltersArgs : setFilters(f)
        \/ \E s \in SearchTerms : handleSearch(s)
        \/ clearAllFilters
        \/ clearButtonClick
        \/ destroy
  \/ hideTimersFire

\* The page of two cards with any of the optional elements
InitOptional ==
  /\ \E elements \in SUBSET OptionalElements : InitOn(elements)
  /\ courses = SmallPage

SpecOptional == InitOptional /\ [][NextOptional]_vars

\* The filter controls alone: clicks, keys, setFilters and clears
NextControls ==
  \/ /\ hideTimers = <<>>
     /\ \/ \E b \in 1..Len(Buttons) : handleFilterClick(b)
        \/ \E b \in 1..Len(Buttons) : \E key \in Keys : handleFilterKeydown(b, key)
        \/ \E f \in SetFiltersArgs : setFilters(f)
        \/ clearAllFilters
  \/ hideTimersFire

\* The page of two cards
InitControls == Init /\ courses = SmallPage

SpecControls == InitControls /\ [][NextControls]_vars

----------------------------------------------------------------------------
(* What the claims speak of, stated without the component's own operators *)

Range(f) == { f[i] : i \in DOMAIN f }

\* A string of white space only (the empty string included)
IsBlank(s) == \A i \in 1..Len(s) : s[i] \in WhiteSpace

\* s without its leading and trailing white space
RECURSIVE Stripped(_)
Stripped(s) ==
  IF s = <<>> THEN s
  ELSE IF Head(s) \in WhiteSpace THEN Stripped(Tail(s))
  ELSE IF s[Len(s)] \in WhiteSpace THEN Stripped(SubSeq(s, 1, Len(s) - 1))
  ELSE s

\* s with every capital letter replaced by its small letter
Lowered(s) ==
  [i \in 1..Len(s) |->
     LET up == {k \in 1..Len(UpperCase) : UpperCase[k] = s[i]}
     IN  IF up = {} THEN s[i] ELSE LowerCase[CHOOSE k \in up : TRUE]]

\* t occurs in s as a run of consecutive characters
IsSubstring(t, s) ==
  \E a \in 1..(Len(s) + 1) : \E b \in 0..Len(s) :
     b - a + 1 = Len(t) /\ \A i \in 1..Len(t) : s[a + i - 1] = t[i]

\* The elements of a comma-separated list, each stripped
Elements(s) ==
  { Stripped(SubSeq(s, a, b)) :
      <<a, b>> \in { p \in (1..(Len(s) + 1)) \X (0..Len(s)) :
                      /\ p[1] <= p[2] + 1
                      /\ (p[1] = 1 \/ s[p[1] - 1] = ",")
                      /\ (p[2] = Len(s) \/ s[p[2] + 1] = ",")
                      /\ \A i \in p[1]..p[2] : s[i] # "," } }

\* The course's attribute for dimension d equals v or, when the attribute is
\* a comma-separated list, has v among its elements
AttributeHas(course, d, v) ==
  /\ d \in DOMAIN Catalog[course].data
  /\ LET a == Catalog[course].data[d]
     IN  IF "," \in Range(a) THEN v \in Elements(a) ELSE a = v

\* The course matches every dimension of the filter state fs
MatchesFilterState(course, fs) ==
  \A d \in DOMAIN fs : fs[d] = ALL \/ AttributeHas(course, d, fs[d])

\* The course matches the search term (the blank term matches every course)
MatchesTerm(course, rawTerm) ==
  LET term == Stripped(Lowered(rawTerm))
      field(f) == IF f \in DOMAIN Catalog[course].text
                    THEN Lowered(Catalog[course].text[f]) ELSE <<>>
      tags == IF "tags" \in DOMAIN Catalog[course].data
                THEN Lowered(Catalog[course].data["tags"]) ELSE <<>>
  IN  \/ term = <<>>
      \/ IsSubstring(term, field("title"))
      \/ IsSubstring(term, field("description"))
      \/ IsSubstring(term, tags)

\* The courses of cs that match the filter state fs, in the order of cs
MatchingFilters(cs, fs) ==
  LET ok(course) == MatchesFilterState(course, fs) IN SelectSeq(cs, ok)

\* The courses of cs that match the term, in the order of cs
MatchingTerm(cs, rawTerm) ==
  LET ok(course) == MatchesTerm(course, rawTerm) IN SelectSeq(cs, ok)

\* The last operation set dimensions of the filter state and recomputed
SetDimensions ==
  \/ lastOp.name \in {"updateFilter", "setFilters"}
  \/ lastOp.name = "handleFilterClick" /\ lastOp.dims # {}

\* The last operation was a search, called directly or by the debounced listener
Searched == lastOp.name \in {"handleSearch", "later"}

\* The last operation recomputed the filtered list
Recomputed == SetDimensions \/ Searched \/ lastOp.name = "clearAllFilters"

\* The .filter-group elements that hold filter buttons
Groups == { Buttons[b].group : b \in 1..Len(Buttons) } \ {0}

\* The filter buttons of group g
Members(g) == { b \in 1..Len(Buttons) : Buttons[b].group = g }

\* How many buttons of its group come before button b in the document
Position(b) == Cardinality({ c \in Members(Buttons[b].group) : c < b })

\* The button of group g that has i buttons of the group before it
ButtonAt(g, i) == CHOOSE b \in Members(g) : Position(b) = i

\* The last operation ran renderCourses
RenderedLast ==
  \/ lastOp.name \in {"init", "setFilters", "handleSearch", "later", "clearAllFilters"}
  \/ lastOp.name = "handleFilterClick" /\ lastOp.dims # {}

AllDimensionsAll == \A d \in DOMAIN filters : filters[d] = ALL

\* Dimension d is the only one with a specific value
OnlyDimension(d) ==
  /\ d \in DOMAIN filters
  /\ filters[d] # ALL
  /\ \A k \in DOMAIN filters \ {d} : filters[k] = ALL

----------------------------------------------------------------------------
(* Claims *)

\* C1: in every state filteredCourses is exactly the loaded courses that
\* match every dimension of the filter state and the search term entered
\* most recently.
C1_VisibleSetInvariant ==
  filteredCourses = MatchingTerm(MatchingFilters(courses, filters), lastTerm)

\* C2: an operation that sets only dimensions that are not among the five
\* leaves the filter state and the filtered list as they were.
C2_UnknownDimensionIsNoOp ==
  [][ (SetDimensions' /\ lastOp'.dims # {} /\ lastOp'.dims \cap Dimensions = {})
        => (filters' = filters /\ filteredCourses' = filteredCourses) ]_vars

\* C3: with no search term, after an operation that leaves one dimension d
\* at a specific value and the others at "all", filteredCourses is exactly
\* the loaded courses whose attribute d equals the value or lists it.
C3_SingleDimension ==
  \A d \in DOMAIN filters :
    (SetDimensions /\ IsBlank(lastTerm) /\ OnlyDimension(d))
      => /\ filteredCourses = MatchingFilters(courses, [k \in {d} |-> filters[d]])
         /\ \A i \in 1..Len(courses) :
              courses[i] \in Range(filteredCourses) <=> AttributeHas(courses[i], d, filters[d])

C3_Witness ==
  /\ SetDimensions /\ IsBlank(lastTerm) /\ OnlyDimension("language")
  /\ courses = <<1, 2, 3, 4>>
  /\ filteredCourses = <<1, 2>>

\* C4: when every dimension is "all" and the search term is empty, a
\* recompute yields the full loaded list, whatever attributes the courses
\* carry or lack.
C4_AllYieldsEverything ==
  (AllDimensionsAll /\ IsBlank(lastTerm))
    => /\ applyFilters(courses, filters) = courses
       /\ (SetDimensions \/ Searched) => filteredCourses = courses

C4_Witness ==
  /\ Searched /\ AllDimensionsAll /\ IsBlank(lastTerm)
  /\ "topic" \in DOMAIN filters
  /\ Len(courses) = 4
  /\ filteredCourses = courses

\* C5: clearAllFilters leaves every dimension "all", the search box empty and
\* filteredCourses equal to the loaded list, as after initialization; a
\* second clearAllFilters right after it changes none of them.
C5_ClearResets ==
  [][ lastOp'.name = "clearAllFilters"
        => /\ Dimensions \subseteq DOMAIN filters'
           /\ \A d \in DOMAIN filters' : filters'[d] = ALL
           /\ inputValue' = <<>>
           /\ filteredCourses' = courses' /\ courses' = courses
           /\ MatchingFilters(courses', filters') = courses'
           /\ dispatched' = << [courses |-> courses', filters |-> filters',
                                count |-> Len(courses')] >>
           /\ lastOp.name = "clearAllFilters"
                => /\ filters' = filters
                   /\ filteredCourses' = filteredCourses
                   /\ inputValue' = inputValue
                   /\ dispatched' = dispatched ]_vars

C5_Witness ==
  /\ lastOp.name = "clearAllFilters"
  /\ "topic" \in DOMAIN filters
  /\ Len(courses) >= 3
  /\ timers # {}

\* C6: after handleSearch with an empty or white-space term, filteredCourses
\* is the loaded courses that match the filter state alone.
C6_EmptySearchIsNoConstraint ==
  (Searched /\ IsBlank(lastTerm)) => filteredCourses = MatchingFilters(courses, filters)

C6_Witness ==
  /\ lastOp.name = "handleSearch" /\ lastTerm = BLANK
  /\ filters["level"] = BEGINNER
  /\ courses = <<1, 2, 3, 4>>
  /\ filteredCourses = <<1, 2, 4>>

\* C7: handleSearch with a non-blank term keeps, of the courses filtered so
\* far, exactly those whose lower-cased title, description or tags contain
\* the lower-cased, trimmed term; the course tagged "english,business" is
\* kept for " BUS " and dropped for "span".
C7_SearchMatching ==
  [][ (Searched' /\ ~IsBlank(lastTerm'))
        => /\ filteredCourses' = MatchingTerm(filteredCourses, lastTerm')
           /\ (lastTerm' = BUS_RAW /\ 1 \in Range(filteredCourses))
                => 1 \in Range(filteredCourses')
           /\ lastTerm' = SPAN => 1 \notin Range(filteredCourses') ]_vars

C7_Witness ==
  /\ lastOp.name = "later" /\ lastTerm = BUS_RAW
  /\ courses = <<1, 2, 3, 4>>
  /\ filteredCourses = <<1, 4>>

\* C8: filteredCourses is a duplicate-free subsequence of the loaded list;
\* with levels beginner, beginner, advanced, selecting level beginner yields
\* the first two courses in their original order.
C8_Subsequence ==
  /\ Range(filteredCourses) \subseteq Range(courses)
  /\ \A i, j \in 1..Len(filteredCourses) :
       i < j => \E p, q \in 1..Len(courses) :
                  p < q /\ courses[p] = filteredCourses[i] /\ courses[q] = filteredCourses[j]
  /\ (SetDimensions /\ courses = <<1, 2, 3>> /\ OnlyDimension("level")
        /\ filters["level"] = BEGINNER)
       => filteredCourses = <<1, 2>>

C8_Witness ==
  /\ SetDimensions /\ courses = <<1, 2, 3>>
  /\ OnlyDimension("level") /\ filters["level"] = BEGINNER
  /\ filteredCourses = <<1, 2>>

\* C9: at most one timer of the debounced listener is pending, the one set
\* by the last input event, and it runs down wait ms after that event; the
\* listener runs handleSearch no earlier, with no timer left pending, and
\* once for the input events since its previous run.
C9_Debounce ==
  /\ Cardinality(timers) <= 1
  /\ \A t \in timers : t.id = timeout /\ t.remaining + sinceInput = wait
  /\ timers # {} <=> (burst.events > 0 /\ burst.runs = 0)
  /\ burst.runs <= 1
  /\ sinceInput < wait => timers # {}
  /\ lastOp.name = "later" => (sinceInput = wait /\ timers = {} /\ burst.runs = 1)

C9_Witness ==
  /\ lastOp.name = "later"
  /\ burst = [events |-> 2, runs |-> 1]
  /\ lastTerm = BUS_RAW

\* C10: every operation that recomputes the filtered list dispatches one
\* coursesFiltered event carrying the filtered list, the filter state and
\* the length of the list.
C10_RecomputeNotifies ==
  Recomputed => dispatched = << [courses |-> filteredCourses, filters |-> filters,
                                 count |-> Len(filteredCourses)] >>

\* C11 (as stated): no operation, destroy included, adds a course to the
\* loaded list or removes one from it.
C11_LoadedListFixed ==
  [][ courses' = courses ]_vars

\* C11 (amended): no operation but destroy changes the loaded list, and
\* destroy empties it.
C11_LoadedListFixedUntilDestroy ==
  [][ IF lastOp'.name = "destroy" THEN courses' = <<>> ELSE courses' = courses ]_vars

C11_Witness ==
  /\ lastOp.name = "handleSearch" /\ lastTerm = SPAN
  /\ filteredCourses = <<>>
  /\ courses = <<1, 2, 3, 4>>

\* C17: an operation that sets dimensions leaves the loaded list and every
\* dimension it does not name as they were, and adds no key but those it names.
C17_FrameEffect ==
  [][ SetDimensions'
        => /\ courses' = courses
           /\ DOMAIN filters' = DOMAIN filters \cup lastOp'.dims
           /\ \A k \in DOMAIN filters \ lastOp'.dims : filters'[k] = filters[k] ]_vars

C17_Witness ==
  /\ lastOp.name = "updateFilter" /\ lastOp.dims = {"level"}
  /\ filters["level"] = BEG_ADV
  /\ filters["language"] = ENGLISH
  /\ "topic" \in DOMAIN filters /\ filters["topic"] = BUSINESS

\* C13: when the debounced listener's timer fires after a clearAllFilters
\* that ran while it was pending, with no input event in between, the term
\* it searches for is the emptied value and filteredCourses is the courses
\* matching the filter state alone: the full list when the filters are all
\* "all", and the list the clear left when it fires right after the clear.
C13_ClearThenPendingSearch ==
  [][ (lastOp'.name = "later" /\ clearedPending)
        => /\ lastTerm' = <<>>
           /\ filteredCourses' = MatchingFilters(courses, filters)
           /\ AllDimensionsAll => filteredCourses' = courses
           /\ lastOp.name = "clearAllFilters"
                => (filteredCourses' = courses /\ filteredCourses' = filteredCourses) ]_vars

C13_Witness ==
  /\ lastOp.name = "later" /\ clearedPending
  /\ burst = [events |-> 1, runs |-> 1]
  /\ AllDimensionsAll
  /\ Len(courses) = 4 /\ filteredCourses = courses

\* C16: in every filter group exactly one button is active, it alone has
\* aria-pressed true, and its data-value is the current value of its
\* data-filter dimension in the filter state.
C16_ControlsMirrorFilters ==
  \A g \in Groups :
    \E b \in Members(g) :
      /\ active \cap Members(g) = {b}
      /\ pressed \cap Members(g) = {b}
      /\ Buttons[b].filter \in DOMAIN filters
      /\ filters[Buttons[b].filter] = Buttons[b].value

\* C18: a keydown on a button at index i of a group of n buttons focuses
\* the button at index i+1 (0 after the last) for ArrowRight and ArrowDown,
\* at index i-1 (n-1 before the first) for ArrowLeft and ArrowUp, the first
\* for Home and the last for End, always a button of that group; any other
\* key, or a button outside every group, moves no focus; and no key changes
\* the filter state, the filtered list or the loaded list.
C18_KeyboardNavigation ==
  [][ lastOp'.name = "handleFilterKeydown"
        => LET b == lastKey'.target
               key == lastKey'.key
               g == Buttons[b].group
               n == Cardinality(Members(g))
               i == Position(b)
               moves == key \in {"ArrowRight", "ArrowDown", "ArrowLeft", "ArrowUp",
                                 "Home", "End"}
           IN  /\ filters' = filters
               /\ filteredCourses' = filteredCourses
               /\ courses' = courses
               /\ (g = 0 \/ ~moves) => focused' = focused
               /\ (g # 0 /\ moves)
                    => /\ n >= 1
                       /\ focused' \in Members(g)
                       /\ Position(focused') \in 0..(n - 1)
                       /\ key \in {"ArrowRight", "ArrowDown"}
                            => focused' = ButtonAt(g, IF i = n - 1 THEN 0 ELSE i + 1)
                       /\ key \in {"ArrowLeft", "ArrowUp"}
                            => focused' = ButtonAt(g, IF i = 0 THEN n - 1 ELSE i - 1)
                       /\ key = "Home" => focused' = ButtonAt(g, 0)
                       /\ key = "End" => focused' = ButtonAt(g, n - 1) ]_vars

C18_Witness ==
  /\ lastOp.name = "handleFilterKeydown"
  /\ lastKey = [target |-> 1, key |-> "ArrowLeft"]
  /\ focused = 5
  /\ filters["level"] = BEGINNER

\* C14: a loaded course that was in filteredCourses at the last render has
\* neither display none nor the hidden class, whatever hide timers have
\* fired since; and when no hide timer is pending, a loaded course has the
\* hidden class iff it is not in filteredCourses.
C14_VisibilityConverges ==
  \A i \in 1..Len(courses) :
    LET c == courses[i]
    IN  /\ c \in Range(lastRendered)
             => (style[c].display # "none" /\ ~style[c].hidden)
        /\ hideTimers = <<>>
             => (style[c].hidden <=> c \notin Range(filteredCourses))

C14_Witness ==
  /\ lastOp.name = "hideTimer"
  /\ courses = <<1>> /\ filteredCourses = <<1>>
  /\ style[1] = [display |-> "block", hidden |-> FALSE, opacity |-> "1"]
  /\ hideTimers = <<>>

\* C15: after an operation that rendered, the empty-state element has
\* display block and aria-hidden false if filteredCourses is empty, display
\* none and aria-hidden true if not, and the results counter shows the
\* length of filteredCourses and the length of the loaded list.
C15_EmptyStateAndCounter ==
  RenderedLast
    => /\ "emptyState" \in present
            => emptyState = IF Len(filteredCourses) = 0
                              THEN [display |-> "block", ariaHidden |-> "false"]
                              ELSE [display |-> "none", ariaHidden |-> "true"]
       /\ "resultsCount" \in present
            => /\ resultsCount.message = "Showing"
               /\ resultsCount.count = Len(filteredCourses)
               /\ resultsCount.total = Len(courses)

C15_Witness ==
  /\ lastOp.name = "handleSearch"
  /\ Len(courses) = 2 /\ filteredCourses = <<>>
  /\ emptyState.display = "block"
  /\ resultsCount.count = 0 /\ resultsCount.total = 2

\* C12: whichever optional elements the page lacks, a filter click,
\* handleSearch, clearAllFilters and setFilters run to their end (the event
\* is dispatched), leave the filter state and the filtered list that the
\* operation yields on any page, and write to no element that is absent.
C12_ToleratesMissingElements ==
  [][ (lastOp'.name \in {"handleSearch", "clearAllFilters", "setFilters"}
         \/ (lastOp'.name = "handleFilterClick" /\ lastOp'.dims # {}))
        => /\ dispatched' = << [courses |-> filteredCourses', filters |-> filters',
                                count |-> Len(filteredCourses')] >>
           /\ courses' = courses /\ present' = present
           /\ lastOp'.name \in {"handleFilterClick", "setFilters"}
                => /\ filteredCourses' = MatchingFilters(courses, filters')
                   /\ DOMAIN filters' = DOMAIN filters \cup lastOp'.dims
                   /\ \A k \in DOMAIN filters \ lastOp'.dims : filters'[k] = filters[k]
           /\ lastOp'.name = "handleSearch"
                => /\ filters' = filters
                   /\ filteredCourses' = IF IsBlank(lastTerm')
                                            THEN MatchingFilters(courses, filters)
                                            ELSE MatchingTerm(filteredCourses, lastTerm')
           /\ lastOp'.name = "clearAllFilters"
                => /\ DOMAIN filters' = DOMAIN filters
                   /\ \A k \in DOMAIN filters' : filters'[k] = ALL
                   /\ filteredCourses' = courses
           /\ "resultsCount" \notin present => resultsCount' = NoText
           /\ "searchResultsCount" \notin present => searchResultsCount' = NoText
           /\ "emptyState" \notin present => emptyState' = NoDisplay
           /\ "liveRegion" \notin present => announced' = <<>>
           /\ "searchInput" \notin present => inputValue' = inputValue ]_vars

C12_Witness ==
  /\ present = {"liveRegion"}
  /\ lastOp.name = "handleSearch" /\ lastTerm = SPAN
  /\ filters["level"] = BEGINNER
  /\ courses = <<1, 2>> /\ filteredCourses = <<>>

====
